---- MODULE Spec2Model ----
(***************************************************************************)
(* Model of python-interview/labelset.py: the Labelset registry of Cases,  *)
(* each Case holding an event log and one State per branch.  Every public  *)
(* method of Labelset is one action; a call that raises is an action too   *)
(* and keeps whatever the method had already written before the raise.     *)
(***************************************************************************)
EXTENDS Integers, Sequences, FiniteSets, TLC

\* Inputs the callers draw from.
CaseIds == {"c1", "c2"}
Branches == {"u1", "u2", "m"}
Revisions == {"td1", "td2"}

\* The callers of Spec make at most MaxCalls calls.
MaxCalls == 3
\* Longest list of source branches handed to merge_branches.
MaxUsers == 2

\* The callers of SpecDeep work on one case with two branches and one
\* revision, and make at most MaxDeepCalls calls.
DeepCaseIds == {"c1"}
DeepBranches == {"u1", "m"}
DeepRevisions == {"td1"}
MaxDeepCalls == 6

\* The callers of SpecPair work on two cases with two branches and one
\* revision, and make at most MaxPairCalls calls.
PairBranches == {"u1", "m"}
PairRevisions == {"td1"}
MaxPairCalls == 5

VARIABLES
    cases,   \* Labelset.cases: dp_id -> Case
    last,    \* the call made last: method, arguments and how it ended
    ncalls   \* the number of calls made so far

vars == <<cases, last, ncalls>>

----------------------------------------------------------------------------
\* How a call ends: it returns, or raises one of the exceptions of the code.
Ok == "ok"
ErrAlreadyExists == "ValueError: already exists"
ErrNoCase == "ValueError: does not exist"
ErrAlreadySubmitted == "ValueError: already submitted"
ErrNotSubmitted == "ValueError: not submitted"
ErrKeyError == "KeyError"

NoArg == "-"

\* dict helpers
EmptyDict == [k \in {} |-> NoArg]
Put(d, k, v) == [x \in (DOMAIN d) \cup {k} |-> IF x = k THEN v ELSE d[x]]

\* State.__init__
State(td) ==
    [latest_td_id |-> td,
     is_submitted |-> FALSE,
     approved_reviews |-> 0,
     rejected_reviews |-> 0,
     needs_updates |-> FALSE,
     is_active |-> TRUE]

\* Event.__init__
Event(user, td, action) == [user |-> user, td_id |-> td, action |-> action]

\* Case.__init__
Case(case_id) == [dp_id |-> case_id, events |-> <<>>, state_by_branch |-> EmptyDict]

\* An event put at the head of the log.
PrependEvent(case, user, td, action) ==
    [case EXCEPT !.events = <<Event(user, td, action)>> \o @]

\* case.events.append(Event(...))
AppendEvent(case, user, td, action) ==
    [case EXCEPT !.events = Append(@, Event(user, td, action))]

\* Labelset.get_case: the Case, or None
None == [none |-> TRUE]
get_case(cs, dp_id) == IF dp_id \in DOMAIN cs THEN cs[dp_id] ELSE None

\* A method's outcome: the registry it leaves and how it ended.
Outcome(cs, result) == [cases |-> cs, result |-> result]

\* create_case with its check after the store: it raises, but has replaced
\* the case by then.
create_case_overwrite(cs, dp_id) ==
    Outcome(Put(cs, dp_id, Case(dp_id)),
            IF dp_id \in DOMAIN cs THEN ErrAlreadyExists ELSE Ok)

\* Labelset.create_case
create_case(cs, dp_id) ==
    IF dp_id \in DOMAIN cs
    THEN Outcome(cs, ErrAlreadyExists)
    ELSE Outcome(Put(cs, dp_id, Case(dp_id)), Ok)

\* annotate_case without its is_submitted check.
annotate_case_unguarded(cs, dp_id, user, td) ==
    LET case == get_case(cs, dp_id) IN
    IF case = None
    THEN Outcome(cs, ErrNoCase)
    ELSE LET c1 == [case EXCEPT !.state_by_branch = Put(@, user, State(td))]
         IN  Outcome(Put(cs, dp_id, AppendEvent(c1, user, td, "annotate")), Ok)

\* annotate_case that stores a State only for a branch that has none.
annotate_case_keeps_state(cs, dp_id, user, td) ==
    LET case == get_case(cs, dp_id) IN
    IF case = None
    THEN Outcome(cs, ErrNoCase)
    ELSE IF user \in DOMAIN case.state_by_branch /\ case.state_by_branch[user].is_submitted
    THEN Outcome(cs, ErrAlreadySubmitted)
    ELSE LET c1 == IF user \in DOMAIN case.state_by_branch
                   THEN case
                   ELSE [case EXCEPT !.state_by_branch = Put(@, user, State(td))]
         IN  Outcome(Put(cs, dp_id, AppendEvent(c1, user, td, "annotate")), Ok)

\* annotate_case that reopens a submitted branch that needs updates.
annotate_case_allows_rework(cs, dp_id, user, td) ==
    LET case == get_case(cs, dp_id) IN
    IF case = None
    THEN Outcome(cs, ErrNoCase)
    ELSE IF /\ user \in DOMAIN case.state_by_branch
            /\ case.state_by_branch[user].is_submitted
            /\ ~case.state_by_branch[user].needs_updates
    THEN Outcome(cs, ErrAlreadySubmitted)
    ELSE LET c1 == [case EXCEPT !.state_by_branch = Put(@, user, State(td))]
         IN  Outcome(Put(cs, dp_id, AppendEvent(c1, user, td, "annotate")), Ok)

\* Labelset.annotate_case
annotate_case(cs, dp_id, user, td) ==
    LET case == get_case(cs, dp_id) IN
    IF case = None
    THEN Outcome(cs, ErrNoCase)
    ELSE IF user \in DOMAIN case.state_by_branch /\ case.state_by_branch[user].is_submitted
    THEN Outcome(cs, ErrAlreadySubmitted)
    ELSE LET c1 == [case EXCEPT !.state_by_branch = Put(@, user, State(td))]
         IN  Outcome(Put(cs, dp_id, AppendEvent(c1, user, td, "annotate")), Ok)

\* sign_off_on_case that forgets its event.
sign_off_without_event(cs, dp_id, user, td) ==
    LET case == get_case(cs, dp_id) IN
    IF case = None
    THEN Outcome(cs, ErrNoCase)
    ELSE IF user \notin DOMAIN case.state_by_branch
    THEN Outcome(cs, ErrKeyError)
    ELSE LET c1 == [case EXCEPT !.state_by_branch[user].is_submitted = TRUE]
         IN  Outcome(Put(cs, dp_id, c1), Ok)

\* sign_off_on_case that makes a State for a branch that has none.
sign_off_creating_state(cs, dp_id, user, td) ==
    LET case == get_case(cs, dp_id) IN
    IF case = None
    THEN Outcome(cs, ErrNoCase)
    ELSE LET s0 == IF user \in DOMAIN case.state_by_branch
                   THEN case.state_by_branch[user]
                   ELSE State(td)
             c1 == [case EXCEPT !.state_by_branch =
                                   Put(@, user, [s0 EXCEPT !.is_submitted = TRUE])]
         IN  Outcome(Put(cs, dp_id, AppendEvent(c1, user, td, "sign_off")), Ok)

\* sign_off_on_case that appends its event before it looks the branch up.
sign_off_logs_first(cs, dp_id, user, td) ==
    LET case == get_case(cs, dp_id) IN
    IF case = None
    THEN Outcome(cs, ErrNoCase)
    ELSE LET c0 == AppendEvent(case, user, td, "sign_off") IN
         IF user \notin DOMAIN case.state_by_branch
         THEN Outcome(Put(cs, dp_id, c0), ErrKeyError)
         ELSE Outcome(Put(cs, dp_id,
                          [c0 EXCEPT !.state_by_branch[user].is_submitted = TRUE]), Ok)

\* sign_off_on_case that takes the revision passed as the branch's latest.
sign_off_sets_revision(cs, dp_id, user, td) ==
    LET case == get_case(cs, dp_id) IN
    IF case = None
    THEN Outcome(cs, ErrNoCase)
    ELSE IF user \notin DOMAIN case.state_by_branch
    THEN Outcome(cs, ErrKeyError)
    ELSE LET c1 == [case EXCEPT !.state_by_branch[user].is_submitted = TRUE,
                                !.state_by_branch[user].latest_td_id = td]
         IN  Outcome(Put(cs, dp_id, AppendEvent(c1, user, td, "sign_off")), Ok)

\* sign_off_on_case that submits every branch of the case.
sign_off_all_branches(cs, dp_id, user, td) ==
    LET case == get_case(cs, dp_id) IN
    IF case = None
    THEN Outcome(cs, ErrNoCase)
    ELSE IF user \notin DOMAIN case.state_by_branch
    THEN Outcome(cs, ErrKeyError)
    ELSE LET c1 == [case EXCEPT !.state_by_branch =
                        [b \in DOMAIN @ |-> [@[b] EXCEPT !.is_submitted = TRUE]]]
         IN  Outcome(Put(cs, dp_id, AppendEvent(c1, user, td, "sign_off")), Ok)

\* Labelset.sign_off_on_case
sign_off_on_case(cs, dp_id, user, td) ==
    LET case == get_case(cs, dp_id) IN
    IF case = None
    THEN Outcome(cs, ErrNoCase)
    ELSE IF user \notin DOMAIN case.state_by_branch
    THEN Outcome(cs, ErrKeyError)
    ELSE LET c1 == [case EXCEPT !.state_by_branch[user].is_submitted = TRUE]
         IN  Outcome(Put(cs, dp_id, AppendEvent(c1, user, td, "sign_off")), Ok)

\* review_passed that also clears needs_updates.
review_passed_clears_updates(cs, dp_id, user, td) ==
    LET case == get_case(cs, dp_id) IN
    IF case = None
    THEN Outcome(cs, ErrNoCase)
    ELSE IF user \notin DOMAIN case.state_by_branch
    THEN Outcome(cs, ErrKeyError)
    ELSE IF case.state_by_branch[user].is_submitted = TRUE
    THEN LET c1 == [case EXCEPT !.state_by_branch[user].approved_reviews = @ + 1,
                                !.state_by_branch[user].needs_updates = FALSE]
         IN  Outcome(Put(cs, dp_id, AppendEvent(c1, user, td, "review_passed")), Ok)
    ELSE Outcome(cs, ErrNotSubmitted)

\* Labelset.review_passed
review_passed(cs, dp_id, user, td) ==
    LET case == get_case(cs, dp_id) IN
    IF case = None
    THEN Outcome(cs, ErrNoCase)
    ELSE IF user \notin DOMAIN case.state_by_branch
    THEN Outcome(cs, ErrKeyError)
    ELSE IF case.state_by_branch[user].is_submitted = TRUE
    THEN LET c1 == [case EXCEPT !.state_by_branch[user].approved_reviews = @ + 1]
         IN  Outcome(Put(cs, dp_id, AppendEvent(c1, user, td, "review_passed")), Ok)
    ELSE Outcome(cs, ErrNotSubmitted)

\* review_failed that counts before it checks is_submitted.
review_failed_counts_first(cs, dp_id, user, td) ==
    LET case == get_case(cs, dp_id) IN
    IF case = None
    THEN Outcome(cs, ErrNoCase)
    ELSE IF user \notin DOMAIN case.state_by_branch
    THEN Outcome(cs, ErrKeyError)
    ELSE LET c1 == [case EXCEPT !.state_by_branch[user].rejected_reviews = @ + 1,
                                !.state_by_branch[user].needs_updates = TRUE]
         IN  IF case.state_by_branch[user].is_submitted = TRUE
             THEN Outcome(Put(cs, dp_id, AppendEvent(c1, user, td, "review_failed")), Ok)
             ELSE Outcome(Put(cs, dp_id, c1), ErrNotSubmitted)

\* review_failed that takes the submission back.
review_failed_unsubmits(cs, dp_id, user, td) ==
    LET case == get_case(cs, dp_id) IN
    IF case = None
    THEN Outcome(cs, ErrNoCase)
    ELSE IF user \notin DOMAIN case.state_by_branch
    THEN Outcome(cs, ErrKeyError)
    ELSE IF case.state_by_branch[user].is_submitted = TRUE
    THEN LET c1 == [case EXCEPT !.state_by_branch[user].rejected_reviews = @ + 1,
                                !.state_by_branch[user].needs_updates = TRUE,
                                !.state_by_branch[user].is_submitted = FALSE]
         IN  Outcome(Put(cs, dp_id, AppendEvent(c1, user, td, "review_failed")), Ok)
    ELSE Outcome(cs, ErrNotSubmitted)

\* Labelset.review_failed
review_failed(cs, dp_id, user, td) ==
    LET case == get_case(cs, dp_id) IN
    IF case = None
    THEN Outcome(cs, ErrNoCase)
    ELSE IF user \notin DOMAIN case.state_by_branch
    THEN Outcome(cs, ErrKeyError)
    ELSE IF case.state_by_branch[user].is_submitted = TRUE
    THEN LET c1 == [case EXCEPT !.state_by_branch[user].rejected_reviews = @ + 1,
                                !.state_by_branch[user].needs_updates = TRUE]
         IN  Outcome(Put(cs, dp_id, AppendEvent(c1, user, td, "review_failed")), Ok)
    ELSE Outcome(cs, ErrNotSubmitted)

\* The loop of merge_branches without the deactivation of the sources.
RECURSIVE MergeLoopKeepsActive(_, _, _, _)
MergeLoopKeepsActive(sbb, users, i, merged_branch) ==
    IF i > Len(users)
    THEN [state_by_branch |-> sbb, result |-> Ok]
    ELSE LET user == users[i] IN
         IF user \notin DOMAIN sbb
         THEN [state_by_branch |-> sbb, result |-> ErrKeyError]
         ELSE LET s2 == IF sbb[user].is_submitted = FALSE
                        THEN [sbb EXCEPT ![merged_branch].is_submitted = FALSE]
                        ELSE sbb
              IN  MergeLoopKeepsActive(s2, users, i + 1, merged_branch)

\* The loop of merge_branches that drops each source from state_by_branch
\* once it has read it.
RECURSIVE MergeLoopDropsSources(_, _, _, _)
MergeLoopDropsSources(sbb, users, i, merged_branch) ==
    IF i > Len(users)
    THEN [state_by_branch |-> sbb, result |-> Ok]
    ELSE LET user == users[i] IN
         IF user \notin DOMAIN sbb
         THEN [state_by_branch |-> sbb, result |-> ErrKeyError]
         ELSE LET s2 == IF sbb[user].is_submitted = FALSE
                        THEN [sbb EXCEPT ![merged_branch].is_submitted = FALSE]
                        ELSE sbb
                  s3 == IF user = merged_branch
                        THEN [s2 EXCEPT ![user].is_active = FALSE]
                        ELSE [b \in (DOMAIN s2) \ {user} |-> s2[b]]
              IN  MergeLoopDropsSources(s3, users, i + 1, merged_branch)

\* The loop of merge_branches from its i-th source on: sbb is the case's
\* state_by_branch as the loop has left it so far.  A source with no State
\* raises KeyError and the loop stops with what it has written.
RECURSIVE MergeLoop(_, _, _, _)
MergeLoop(sbb, users, i, merged_branch) ==
    IF i > Len(users)
    THEN [state_by_branch |-> sbb, result |-> Ok]
    ELSE LET user == users[i] IN
         IF user \notin DOMAIN sbb
         THEN [state_by_branch |-> sbb, result |-> ErrKeyError]
         ELSE LET s1 == [sbb EXCEPT ![user].is_active = FALSE]
                  s2 == IF s1[user].is_submitted = FALSE
                        THEN [s1 EXCEPT ![merged_branch].is_submitted = FALSE]
                        ELSE s1
              IN  MergeLoop(s2, users, i + 1, merged_branch)

\* The State merge_branches stores for the merged branch before its loop.
MergedState(td) == [State(td) EXCEPT !.is_submitted = TRUE]

\* merge_branches that makes the case when the id is not registered.
merge_branches_makes_case(cs, dp_id, users, merged_branch, td) ==
    LET case == IF dp_id \in DOMAIN cs THEN cs[dp_id] ELSE Case(dp_id)
        sbb0 == Put(case.state_by_branch, merged_branch, MergedState(td))
        loop == MergeLoop(sbb0, users, 1, merged_branch)
        c1   == [case EXCEPT !.state_by_branch = loop.state_by_branch]
    IN  IF loop.result = Ok
        THEN Outcome(Put(cs, dp_id, AppendEvent(c1, merged_branch, td, "merge_branches")), Ok)
        ELSE Outcome(Put(cs, dp_id, c1), loop.result)

\* Labelset.merge_branches
merge_branches(cs, dp_id, users, merged_branch, td) ==
    LET case == get_case(cs, dp_id) IN
    IF case = None
    THEN Outcome(cs, ErrNoCase)
    ELSE LET sbb0 == Put(case.state_by_branch, merged_branch, MergedState(td))
             loop == MergeLoop(sbb0, users, 1, merged_branch)
             c1   == [case EXCEPT !.state_by_branch = loop.state_by_branch]
         IN  IF loop.result = Ok
             THEN Outcome(Put(cs, dp_id, AppendEvent(c1, merged_branch, td, "merge_branches")), Ok)
             ELSE Outcome(Put(cs, dp_id, c1), loop.result)

\* json.dumps of a bool
JsonBool(b) == IF b THEN "true" ELSE "false"

\* event.__dict__ as get_cases exports it
EventDict(e) == [user |-> e.user, td_id |-> e.td_id, action |-> e.action]

\* state.__dict__ as get_cases exports it
StateDict(s) ==
    [latest_td_id |-> s.latest_td_id,
     is_submitted |-> JsonBool(s.is_submitted),
     approved_reviews |-> s.approved_reviews,
     rejected_reviews |-> s.rejected_reviews,
     needs_updates |-> JsonBool(s.needs_updates),
     is_active |-> JsonBool(s.is_active)]

\* The document get_cases builds for one case.
CaseDict(case, branches) ==
    [dp_id |-> case.dp_id,
     events |-> [i \in 1..Len(case.events) |-> EventDict(case.events[i])],
     state_by_branch |-> [b \in branches |-> StateDict(case.state_by_branch[b])]]

\* get_cases that leaves the merged-away branches out of the document.
get_cases_active_only(cs) ==
    [cases |-> cs,
     result |-> Ok,
     returned |-> [c \in DOMAIN cs |->
                     CaseDict(cs[c], {b \in DOMAIN cs[c].state_by_branch :
                                         cs[c].state_by_branch[b].is_active})]]

\* Labelset.get_cases: the registry it leaves and the JSON document it returns
get_cases(cs) ==
    [cases |-> cs,
     result |-> Ok,
     returned |-> [c \in DOMAIN cs |-> CaseDict(cs[c], DOMAIN cs[c].state_by_branch)]]

----------------------------------------------------------------------------
\* The callers.

\* Lists of at most MaxUsers branch names, repeats and any order included.
UserLists(Bs) == UNION {[1..n -> Bs] : n \in 0..MaxUsers}

\* One call: the method runs to its return or its raise, and the caller
\* notes what it called and how the call ended.
CallReturning(max, op, dp_id, user, td, users, out, returned) ==
    /\ ncalls < max
    /\ ncalls' = ncalls + 1
    /\ cases' = out.cases
    /\ last' = [op |-> op, dp_id |-> dp_id, user |-> user, td |-> td,
                users |-> users, result |-> out.result, returned |-> returned]

\* A call of a method that returns None.
Call(max, op, dp_id, user, td, users, out) ==
    CallReturning(max, op, dp_id, user, td, users, out, None)

\* Labelset.__init__
Init ==
    /\ cases = EmptyDict
    /\ ncalls = 0
    /\ last = [op |-> "__init__", dp_id |-> NoArg, user |-> NoArg, td |-> NoArg,
               users |-> <<>>, result |-> Ok, returned |-> None]

CreateCase(Cs, max) ==
    \E dp_id \in Cs :
        Call(max, "create_case", dp_id, NoArg, NoArg, <<>>, create_case(cases, dp_id))

AnnotateCase(Cs, Bs, Rs, max) ==
    \E dp_id \in Cs, user \in Bs, td \in Rs :
        Call(max, "annotate_case", dp_id, user, td, <<>>,
             annotate_case(cases, dp_id, user, td))

SignOffOnCase(Cs, Bs, Rs, max) ==
    \E dp_id \in Cs, user \in Bs, td \in Rs :
        Call(max, "sign_off_on_case", dp_id, user, td, <<>>,
             sign_off_on_case(cases, dp_id, user, td))

ReviewPassed(Cs, Bs, Rs, max) ==
    \E dp_id \in Cs, user \in Bs, td \in Rs :
        Call(max, "review_passed", dp_id, user, td, <<>>,
             review_passed(cases, dp_id, user, td))

ReviewFailed(Cs, Bs, Rs, max) ==
    \E dp_id \in Cs, user \in Bs, td \in Rs :
        Call(max, "review_failed", dp_id, user, td, <<>>,
             review_failed(cases, dp_id, user, td))

MergeBranches(Cs, Bs, Rs, max) ==
    \E dp_id \in Cs, users \in UserLists(Bs), merged_branch \in Bs, td \in Rs :
        Call(max, "merge_branches", dp_id, merged_branch, td, users,
             merge_branches(cases, dp_id, users, merged_branch, td))

GetCases(max) ==
    LET out == get_cases(cases)
    IN  CallReturning(max, "get_cases", NoArg, NoArg, NoArg, <<>>, out, out.returned)

\* Any caller, any arguments.
Next ==
    \/ CreateCase(CaseIds, MaxCalls)
    \/ AnnotateCase(CaseIds, Branches, Revisions, MaxCalls)
    \/ SignOffOnCase(CaseIds, Branches, Revisions, MaxCalls)
    \/ ReviewPassed(CaseIds, Branches, Revisions, MaxCalls)
    \/ ReviewFailed(CaseIds, Branches, Revisions, MaxCalls)
    \/ MergeBranches(CaseIds, Branches, Revisions, MaxCalls)
    \/ GetCases(MaxCalls)

Spec == Init /\ [][Next]_vars

\* Longer runs on one case.
NextDeep ==
    \/ CreateCase(DeepCaseIds, MaxDeepCalls)
    \/ AnnotateCase(DeepCaseIds, DeepBranches, DeepRevisions, MaxDeepCalls)
    \/ SignOffOnCase(DeepCaseIds, DeepBranches, DeepRevisions, MaxDeepCalls)
    \/ ReviewPassed(DeepCaseIds, DeepBranches, DeepRevisions, MaxDeepCalls)
    \/ ReviewFailed(DeepCaseIds, DeepBranches, DeepRevisions, MaxDeepCalls)
    \/ MergeBranches(DeepCaseIds, DeepBranches, DeepRevisions, MaxDeepCalls)
    \/ GetCases(MaxDeepCalls)

SpecDeep == Init /\ [][NextDeep]_vars

\* Longer runs on two cases.
NextPair ==
    \/ CreateCase(CaseIds, MaxPairCalls)
    \/ AnnotateCase(CaseIds, PairBranches, PairRevisions, MaxPairCalls)
    \/ SignOffOnCase(CaseIds, PairBranches, PairRevisions, MaxPairCalls)
    \/ ReviewPassed(CaseIds, PairBranches, PairRevisions, MaxPairCalls)
    \/ ReviewFailed(CaseIds, PairBranches, PairRevisions, MaxPairCalls)
    \/ MergeBranches(CaseIds, PairBranches, PairRevisions, MaxPairCalls)
    \/ GetCases(MaxPairCalls)

SpecPair == Init /\ [][NextPair]_vars

----------------------------------------------------------------------------
\* What the properties below read off a step: the call is the one noted in
\* last', the registry before it is cases and after it cases'.

Mutators == {"annotate_case", "sign_off_on_case", "review_passed", "review_failed",
             "merge_branches"}
Reviews == {"review_passed", "review_failed"}

\* The branches named in a list of sources.
Sources(users) == {users[i] : i \in 1..Len(users)}

\* The fields of a State a merge leaves alone on its sources.
ReviewFields(s) ==
    <<s.is_submitted, s.approved_reviews, s.rejected_reviews, s.needs_updates>>

\* The call of this step is made on a registered case.
OnCase == last'.dp_id \in DOMAIN cases
Pre == cases[last'.dp_id].state_by_branch
Post == cases'[last'.dp_id].state_by_branch

\* C1: create_case with an id that is already registered fails with
\* AlreadyExists and leaves the registry as it was: the existing case keeps
\* its event log and its branch states.
C1_CreateExistingFails ==
    [][(last'.op = "create_case" /\ last'.dp_id \in DOMAIN cases)
        => (last'.result = ErrAlreadyExists /\ cases' = cases)]_vars

C1_Witness ==
    /\ last.op = "create_case"
    /\ last.result = ErrAlreadyExists
    /\ cases[last.dp_id].events # <<>>
    /\ DOMAIN cases[last.dp_id].state_by_branch # {}

\* C2: a merge_branches that succeeds sets the merged branch's is_submitted to
\* the logical AND of the is_submitted flags its sources had when the call
\* was made, for every list of sources, the merged branch among them included.
C2_MergeIsAndOfSources ==
    [][(/\ last'.op = "merge_branches"
        /\ last'.result = Ok
        /\ Sources(last'.users) \subseteq DOMAIN Pre)
        => (Post[last'.user].is_submitted
              = (\A i \in 1..Len(last'.users) : Pre[last'.users[i]].is_submitted))]_vars

\* C3, as claimed: after a successful merge_branches every source is inactive,
\* the merged branch is active with latest_td_id the revision passed, and the
\* sources keep their is_submitted, counters and needs_updates.
C3_MergeAsClaimed ==
    [][(last'.op = "merge_branches" /\ last'.result = Ok)
        => (/\ \A u \in Sources(last'.users) : Post[u].is_active = FALSE
            /\ Post[last'.user].is_active = TRUE
            /\ Post[last'.user].latest_td_id = last'.td
            /\ \A u \in Sources(last'.users) \cap DOMAIN Pre :
                  ReviewFields(Post[u]) = ReviewFields(Pre[u]))]_vars

\* C3, amended: after a successful merge_branches every source is inactive, the
\* merged branch has latest_td_id the revision passed and is active exactly
\* when it is not one of the sources, and the sources other than the merged
\* branch keep their is_submitted, counters and needs_updates.
C3_MergeDeactivatesSources ==
    [][(last'.op = "merge_branches" /\ last'.result = Ok)
        => (/\ \A u \in Sources(last'.users) : Post[u].is_active = FALSE
            /\ Post[last'.user].is_active = (last'.user \notin Sources(last'.users))
            /\ Post[last'.user].latest_td_id = last'.td
            /\ \A u \in Sources(last'.users) \ {last'.user} :
                  /\ u \in DOMAIN Pre
                  /\ ReviewFields(Post[u]) = ReviewFields(Pre[u]))]_vars

C3_Witness ==
    /\ last.op = "merge_branches"
    /\ last.result = Ok
    /\ last.users # <<>>
    /\ last.user \notin Sources(last.users)
    /\ cases[last.dp_id].state_by_branch[last.user].latest_td_id = last.td
    /\ \E u \in Sources(last.users) :
          cases[last.dp_id].state_by_branch[u].latest_td_id # last.td

\* C4: every call that fails leaves the whole registry as it was before the
\* call; a merge_branches that fails on a source with no State stores no
\* merged branch and deactivates no source.
C4_FailedCallChangesNothing ==
    [][(last'.result # Ok) => (cases' = cases)]_vars

\* C5: annotate_case on a branch whose State is submitted fails with
\* AlreadySubmitted, and the State and the event log stay as they were.
C5_AnnotateSubmittedFails ==
    [][(/\ last'.op = "annotate_case"
        /\ OnCase
        /\ last'.user \in DOMAIN Pre
        /\ Pre[last'.user].is_submitted)
        => (/\ last'.result = ErrAlreadySubmitted
            /\ Post[last'.user] = Pre[last'.user]
            /\ cases'[last'.dp_id].events = cases[last'.dp_id].events)]_vars

C5_Witness ==
    /\ last.op = "annotate_case"
    /\ last.result = ErrAlreadySubmitted
    /\ cases[last.dp_id].state_by_branch[last.user].is_submitted
    /\ cases[last.dp_id].state_by_branch[last.user].latest_td_id # last.td

\* C6: review_passed and review_failed on a branch that has a State with
\* is_submitted false fail with NotSubmitted, change no counter and no
\* needs_updates of any branch, and append no event.
C6_ReviewUnsubmittedFails ==
    [][(/\ last'.op \in Reviews
        /\ OnCase
        /\ last'.user \in DOMAIN Pre
        /\ ~Pre[last'.user].is_submitted)
        => (/\ last'.result = ErrNotSubmitted
            /\ DOMAIN cases' = DOMAIN cases
            /\ \A c \in DOMAIN cases :
                  /\ cases'[c].events = cases[c].events
                  /\ DOMAIN cases'[c].state_by_branch = DOMAIN cases[c].state_by_branch
                  /\ \A b \in DOMAIN cases[c].state_by_branch :
                        LET s == cases[c].state_by_branch[b]
                            t == cases'[c].state_by_branch[b]
                        IN  /\ t.approved_reviews = s.approved_reviews
                            /\ t.rejected_reviews = s.rejected_reviews
                            /\ t.needs_updates = s.needs_updates)]_vars

C6_Witness ==
    /\ last.op \in Reviews
    /\ last.result = ErrNotSubmitted
    /\ ~cases[last.dp_id].state_by_branch[last.user].is_submitted
    /\ cases[last.dp_id].events # <<>>

\* C7: every successful annotate_case replaces the branch's State wholesale:
\* latest_td_id is the revision of the call, is_submitted false, both counters
\* 0, needs_updates false and is_active true, whatever State the branch had.
C7_AnnotateReplacesState ==
    [][(last'.op = "annotate_case" /\ last'.result = Ok)
        => (Post[last'.user] =
               [latest_td_id |-> last'.td,
                is_submitted |-> FALSE,
                approved_reviews |-> 0,
                rejected_reviews |-> 0,
                needs_updates |-> FALSE,
                is_active |-> TRUE])]_vars

\* A second annotate on the branch, with another revision than the first.
C7_Witness ==
    /\ last.op = "annotate_case"
    /\ last.result = Ok
    /\ LET ev == cases[last.dp_id].events
       IN  \E i \in 1..(Len(ev) - 1) :
              /\ ev[i].user = last.user
              /\ ev[i].action = "annotate"
              /\ ev[i].td_id # last.td
    /\ cases[last.dp_id].state_by_branch[last.user].latest_td_id = last.td

\* C8: on a submitted branch every successful review_passed adds exactly one
\* to approved_reviews and every successful review_failed exactly one to
\* rejected_reviews and sets needs_updates; neither touches the other counter,
\* and is_submitted stays true.  So k passes and m fails, in any order, leave
\* approved_reviews = k, rejected_reviews = m, needs_updates = (m >= 1).
C8_ReviewsCountIndependently ==
    [][(last'.op \in Reviews /\ last'.result = Ok)
        => LET s == Pre[last'.user]
               t == Post[last'.user]
           IN  /\ s.is_submitted /\ t.is_submitted
               /\ last'.op = "review_passed" =>
                     /\ t.approved_reviews = s.approved_reviews + 1
                     /\ t.rejected_reviews = s.rejected_reviews
                     /\ t.needs_updates = s.needs_updates
               /\ last'.op = "review_failed" =>
                     /\ t.rejected_reviews = s.rejected_reviews + 1
                     /\ t.approved_reviews = s.approved_reviews
                     /\ t.needs_updates = TRUE]_vars

\* Two passes and a fail on a branch that was annotated and signed off.
C8_Witness ==
    /\ last.op = "review_failed"
    /\ last.result = Ok
    /\ LET s == cases[last.dp_id].state_by_branch[last.user]
           ev == cases[last.dp_id].events
       IN  /\ s.approved_reviews = 2
           /\ s.rejected_reviews = 1
           /\ s.needs_updates
           /\ s.is_submitted
           /\ \E i \in 1..Len(ev) : ev[i].user = last.user /\ ev[i].action = "sign_off"

\* The action an Event of each method carries.
ActionOf(op) ==
    CASE op = "annotate_case" -> "annotate"
      [] op = "sign_off_on_case" -> "sign_off"
      [] op = "review_passed" -> "review_passed"
      [] op = "review_failed" -> "review_failed"
      [] op = "merge_branches" -> "merge_branches"

\* C9: a successful annotate, sign_off, review_passed, review_failed or
\* merge_branches appends exactly one Event to the case's log: its action
\* names the method, its user is the branch acted on (the merged branch for a
\* merge) and its td_id the revision passed.  A failed call appends none, and
\* create_case starts a case with an empty log, so the length of a log is the
\* number of successful mutating calls on the case.
C9_OneEventPerSuccessfulCall ==
    [][/\ (last'.op \in Mutators /\ OnCase /\ last'.result = Ok) =>
              cases'[last'.dp_id].events =
                  Append(cases[last'.dp_id].events,
                         [user |-> last'.user, td_id |-> last'.td,
                          action |-> ActionOf(last'.op)])
       /\ (last'.op \in Mutators /\ OnCase /\ last'.result # Ok) =>
              cases'[last'.dp_id].events = cases[last'.dp_id].events
       /\ (last'.op = "create_case" /\ last'.result = Ok) =>
              cases'[last'.dp_id].events = <<>>
       /\ (last'.op = "create_case" /\ last'.result # Ok) =>
              cases'[last'.dp_id].events = cases[last'.dp_id].events]_vars

\* A merge that succeeded as the second successful call on its case.
C9_Witness ==
    /\ last.op = "merge_branches"
    /\ last.result = Ok
    /\ last.users # <<>>
    /\ LET ev == cases[last.dp_id].events
       IN  /\ Len(ev) = 2
           /\ ev[2] = [user |-> last.user, td_id |-> last.td, action |-> "merge_branches"]
           /\ ev[1].td_id # last.td

\* The exceptions that tell the caller that what it named does not exist.
IsNotFound(result) == result \in {ErrNoCase, ErrKeyError}

C11_UnknownCaseFails ==
    [][(last'.op \in Mutators /\ last'.dp_id \notin DOMAIN cases)
        => (last'.result = ErrNoCase /\ cases' = cases)]_vars

\* A merge on an unregistered id while another case with a State is registered.
C11_Witness ==
    /\ last.op = "merge_branches"
    /\ last.result = ErrNoCase
    /\ last.dp_id \notin DOMAIN cases
    /\ \E c \in DOMAIN cases : DOMAIN cases[c].state_by_branch # {}

\* The step is a successful annotate_case on branch b of case c.
AnnotatedOk(c, b) ==
    /\ last'.op = "annotate_case"
    /\ last'.result = Ok
    /\ last'.dp_id = c
    /\ last'.user = b

\* The step is a merge_branches on case c that names b as its merged branch.
MergedInto(c, b) ==
    /\ last'.op = "merge_branches"
    /\ last'.dp_id = c
    /\ last'.user = b

\* C12, as claimed: once needs_updates of a branch is true it stays true until
\* a successful annotate on that branch; no other call, merge_branches with
\* any arguments included, resets it.
C12_StickyAsClaimed ==
    [][\A c \in DOMAIN cases : \A b \in DOMAIN cases[c].state_by_branch :
          (cases[c].state_by_branch[b].needs_updates /\ ~AnnotatedOk(c, b))
          => (/\ b \in DOMAIN cases'[c].state_by_branch
              /\ cases'[c].state_by_branch[b].needs_updates)]_vars

\* C12, amended: once needs_updates of a branch is true it stays true through
\* every call except a successful annotate on that branch and a merge_branches
\* that names the branch as its merged branch, which stores a new State for it.
C12_StickyExceptWhenReplaced ==
    [][\A c \in DOMAIN cases : \A b \in DOMAIN cases[c].state_by_branch :
          (/\ cases[c].state_by_branch[b].needs_updates
           /\ ~AnnotatedOk(c, b)
           /\ ~MergedInto(c, b))
          => (/\ b \in DOMAIN cases'[c].state_by_branch
              /\ cases'[c].state_by_branch[b].needs_updates)]_vars

\* A branch that needs updates has been merged away as a source and a review
\* has passed on it since: it still needs updates.
C12_Witness ==
    /\ last.op = "review_passed"
    /\ last.result = Ok
    /\ LET s == cases[last.dp_id].state_by_branch[last.user]
       IN  /\ s.needs_updates
           /\ ~s.is_active
           /\ s.approved_reviews = 1

\* C13, as claimed: once is_active of a branch is false, in every later state
\* the branch is still a key of the case's state_by_branch and still inactive,
\* whatever calls follow.
C13_InactiveForeverAsClaimed ==
    [][\A c \in DOMAIN cases : \A b \in DOMAIN cases[c].state_by_branch :
          ~cases[c].state_by_branch[b].is_active
          => (/\ c \in DOMAIN cases'
              /\ b \in DOMAIN cases'[c].state_by_branch
              /\ ~cases'[c].state_by_branch[b].is_active)]_vars

\* C13, amended: a branch is never deleted, and an inactive branch stays
\* inactive through every call except a successful annotate on it and a
\* merge_branches that names it as its merged branch, which store a new State.
C13_InactiveUntilReplaced ==
    [][\A c \in DOMAIN cases : \A b \in DOMAIN cases[c].state_by_branch :
          /\ c \in DOMAIN cases'
          /\ b \in DOMAIN cases'[c].state_by_branch
          /\ (/\ ~cases[c].state_by_branch[b].is_active
              /\ ~AnnotatedOk(c, b)
              /\ ~MergedInto(c, b))
             => ~cases'[c].state_by_branch[b].is_active]_vars

\* A branch merged away as a source of another branch, then signed off: it
\* is still there and still inactive.
C13_Witness ==
    /\ last.op = "sign_off_on_case"
    /\ last.result = Ok
    /\ ~cases[last.dp_id].state_by_branch[last.user].is_active
    /\ \E i \in 1..Len(cases[last.dp_id].events) :
          /\ cases[last.dp_id].events[i].action = "merge_branches"
          /\ cases[last.dp_id].events[i].user # last.user

\* C14: in every reachable state, every user that appears in a case's event
\* log is a key of that case's state_by_branch.
C14_ActorsHaveStates ==
    \A c \in DOMAIN cases :
        \A i \in 1..Len(cases[c].events) :
            cases[c].events[i].user \in DOMAIN cases[c].state_by_branch

\* A log with two actors, one of them a merged branch.
C14_Witness ==
    \E c \in DOMAIN cases :
        LET ev == cases[c].events
        IN  /\ Len(ev) = 2
            /\ ev[1].user # ev[2].user
            /\ ev[1].action = "annotate"
            /\ ev[2].action = "merge_branches"
            /\ {ev[1].user, ev[2].user} \subseteq DOMAIN cases[c].state_by_branch

\* C15: the event log of every case is append-only: through every call,
\* returned or raised, the log before the call is a prefix of the log after it.
C15_LogAppendOnly ==
    [][\A c \in DOMAIN cases :
          /\ c \in DOMAIN cases'
          /\ Len(cases'[c].events) >= Len(cases[c].events)
          /\ \A i \in 1..Len(cases[c].events) :
                cases'[c].events[i] = cases[c].events[i]]_vars

\* A call has appended a second, different event to a log.
C15_Witness ==
    /\ last.op \in Mutators
    /\ last.result = Ok
    /\ LET ev == cases[last.dp_id].events
       IN  /\ Len(ev) = 2
           /\ ev[1] # ev[2]
           /\ ev[2].user = last.user
           /\ ev[2].action = ActionOf(last.op)

\* json.loads of a bool
FromJsonBool(t) == t = "true"

\* C16: get_cases is read-only and faithful: it leaves every case, log and
\* State as it was, and the document it returns holds, for every registered
\* case and nothing else, exactly its id, its events in log order and the six
\* fields of the State of each of its branches with their current values.
C16_ExportReadOnlyAndFaithful ==
    [][(last'.op = "get_cases")
        => (/\ cases' = cases
            /\ last'.result = Ok
            /\ LET doc == last'.returned IN
               /\ DOMAIN doc = DOMAIN cases
               /\ \A c \in DOMAIN cases :
                     /\ DOMAIN doc[c] = {"dp_id", "events", "state_by_branch"}
                     /\ doc[c].dp_id = c
                     /\ Len(doc[c].events) = Len(cases[c].events)
                     /\ \A i \in 1..Len(cases[c].events) :
                           doc[c].events[i] =
                               [user |-> cases[c].events[i].user,
                                td_id |-> cases[c].events[i].td_id,
                                action |-> cases[c].events[i].action]
                     /\ DOMAIN doc[c].state_by_branch = DOMAIN cases[c].state_by_branch
                     /\ \A b \in DOMAIN cases[c].state_by_branch :
                           LET d == doc[c].state_by_branch[b]
                               s == cases[c].state_by_branch[b]
                           IN  /\ DOMAIN d = {"latest_td_id", "is_submitted",
                                              "approved_reviews", "rejected_reviews",
                                              "needs_updates", "is_active"}
                               /\ d.latest_td_id = s.latest_td_id
                               /\ FromJsonBool(d.is_submitted) = s.is_submitted
                               /\ d.approved_reviews = s.approved_reviews
                               /\ d.rejected_reviews = s.rejected_reviews
                               /\ FromJsonBool(d.needs_updates) = s.needs_updates
                               /\ FromJsonBool(d.is_active) = s.is_active)]_vars

\* An export of a case with an event and a merged-away branch.
C16_Witness ==
    /\ last.op = "get_cases"
    /\ \E c \in DOMAIN cases :
          /\ cases[c].events # <<>>
          /\ Len(last.returned[c].events) = Len(cases[c].events)
          /\ \E b \in DOMAIN cases[c].state_by_branch :
                /\ ~cases[c].state_by_branch[b].is_active
                /\ last.returned[c].state_by_branch[b].is_active = "false"

\* C17: a successful sign_off_on_case changes only is_submitted of the branch,
\* to true: latest_td_id (also when the revision passed differs from it), both
\* counters, needs_updates and is_active keep their values; on a branch that
\* is submitted already the call succeeds and the State stays as it was.
C17_SignOffOnlySubmits ==
    [][(last'.op = "sign_off_on_case" /\ OnCase /\ last'.user \in DOMAIN Pre)
        => (/\ last'.result = Ok
            /\ Post[last'.user].is_submitted = TRUE
            /\ Post[last'.user].latest_td_id = Pre[last'.user].latest_td_id
            /\ Post[last'.user].approved_reviews = Pre[last'.user].approved_reviews
            /\ Post[last'.user].rejected_reviews = Pre[last'.user].rejected_reviews
            /\ Post[last'.user].needs_updates = Pre[last'.user].needs_updates
            /\ Post[last'.user].is_active = Pre[last'.user].is_active
            /\ Pre[last'.user].is_submitted => Post[last'.user] = Pre[last'.user])]_vars

\* A sign_off with another revision than the branch's, on a branch annotated
\* just before.
C17_Witness ==
    /\ last.op = "sign_off_on_case"
    /\ last.result = Ok
    /\ LET s == cases[last.dp_id].state_by_branch[last.user]
           ev == cases[last.dp_id].events
       IN  /\ s.is_submitted
           /\ s.latest_td_id # last.td
           /\ Len(ev) = 2
           /\ ev[1] = [user |-> last.user, td_id |-> s.latest_td_id, action |-> "annotate"]

\* The per-branch operations.
PerBranch == {"annotate_case", "sign_off_on_case", "review_passed", "review_failed"}

\* C18: branches and cases are independent. A successful annotate, sign_off,
\* review_passed or review_failed on (case c, branch b) leaves the State of
\* every other branch of c unchanged, and every call on case c, merge_branches
\* included, leaves the events and branches of every other case unchanged.
C18_BranchesAndCasesIndependent ==
    [][/\ (last'.op \in PerBranch /\ last'.result = Ok)
          => \A b2 \in DOMAIN Pre \ {last'.user} :
                /\ b2 \in DOMAIN Post
                /\ Post[b2] = Pre[b2]
       /\ \A c2 \in DOMAIN cases \ {last'.dp_id} :
             /\ c2 \in DOMAIN cases'
             /\ cases'[c2].events = cases[c2].events
             /\ cases'[c2].state_by_branch = cases[c2].state_by_branch]_vars

\* A branch was annotated while another branch of its case is submitted and
\* another case has a log and a branch of its own.
C18_Witness ==
    /\ last.op = "annotate_case"
    /\ last.result = Ok
    /\ \E b2 \in DOMAIN cases[last.dp_id].state_by_branch \ {last.user} :
          cases[last.dp_id].state_by_branch[b2].is_submitted
    /\ \E c2 \in DOMAIN cases \ {last.dp_id} :
          /\ Len(cases[c2].events) > 0
          /\ DOMAIN cases[c2].state_by_branch # {}

\* C19: in every reachable state, every branch that is not submitted has no
\* approved review, no rejected review and needs_updates false, and every
\* branch has needs_updates true exactly when it has at least one rejected
\* review.
C19_ReviewsOnlyOnSubmitted ==
    \A c \in DOMAIN cases : \A b \in DOMAIN cases[c].state_by_branch :
        LET s == cases[c].state_by_branch[b]
        IN  /\ (s.is_submitted = FALSE)
                => (/\ s.approved_reviews = 0
                    /\ s.rejected_reviews = 0
                    /\ s.needs_updates = FALSE)
            /\ (s.needs_updates = TRUE) <=> (s.rejected_reviews >= 1)

\* A case holds a submitted branch that was rejected and approved, next to a
\* branch that is annotated and not submitted.
C19_Witness ==
    \E c \in DOMAIN cases : \E b1, b2 \in DOMAIN cases[c].state_by_branch :
        /\ cases[c].state_by_branch[b1].is_submitted
        /\ cases[c].state_by_branch[b1].rejected_reviews >= 1
        /\ cases[c].state_by_branch[b1].approved_reviews >= 1
        /\ cases[c].state_by_branch[b1].needs_updates
        /\ ~cases[c].state_by_branch[b2].is_submitted

\* C20: submission is irreversible through the per-branch operations. Once a
\* branch is submitted, every call except a merge_branches that names it as
\* its merged branch keeps its State in place: the branch stays submitted with
\* the same revision and loses no review count. So annotate on a submitted
\* branch fails with AlreadySubmitted and changes nothing, also after
\* review_failed has set needs_updates.
C20_SubmissionIrreversible ==
    [][/\ \A c \in DOMAIN cases : \A b \in DOMAIN cases[c].state_by_branch :
             (cases[c].state_by_branch[b].is_submitted /\ ~MergedInto(c, b))
             => (/\ c \in DOMAIN cases'
                 /\ b \in DOMAIN cases'[c].state_by_branch
                 /\ LET s == cases[c].state_by_branch[b]
                        t == cases'[c].state_by_branch[b]
                    IN  /\ t.is_submitted = TRUE
                        /\ t.latest_td_id = s.latest_td_id
                        /\ t.approved_reviews >= s.approved_reviews
                        /\ t.rejected_reviews >= s.rejected_reviews
                        /\ t.needs_updates = (s.needs_updates \/ t.rejected_reviews > s.rejected_reviews))
       /\ (/\ last'.op = "annotate_case"
           /\ OnCase
           /\ last'.user \in DOMAIN Pre
           /\ Pre[last'.user].is_submitted)
          => (last'.result = ErrAlreadySubmitted /\ cases' = cases)]_vars

\* An annotate was refused on a submitted branch that a failed review had
\* marked as needing updates.
C20_Witness ==
    /\ last.op = "annotate_case"
    /\ last.result = ErrAlreadySubmitted
    /\ LET s == cases[last.dp_id].state_by_branch[last.user]
       IN  /\ s.is_submitted
           /\ s.needs_updates
           /\ s.rejected_reviews >= 1

====
